---- MODULE Spec2Model ----
(***************************************************************************)
(* A model of the streaming encoder (src/src/encoder.rs) and the streaming *)
(* decoder (src/src/decoder.rs) of sofa-serialize.                         *)
(*                                                                         *)
(* Representation.  A byte is a number 0..255.  A string or a binary blob  *)
(* is the sequence of its bytes.  A fixed-width integer or float payload   *)
(* is the sequence of its bytes, most significant first, so that writing   *)
(* it little-endian reverses it.  An event is a record [t, v]: t is the    *)
(* variant's name and v its payload (a sequence of numbers); Some(n) is    *)
(* <<n>> and None is <<>> for the four Start events.                       *)
(***************************************************************************)
EXTENDS Integers, Sequences, FiniteSets, TLC

VARIABLES
    mode,      \* which harness drives the objects, and its phase
    dict,      \* the dictionary given to Encoder::new and Decoder::new
    doc,       \* the harness's input: the event sequence the round-trip harness
               \* writes, the item the payload harness builds its buffer from,
               \* the whole buffer the decoder harness reads
    estack,    \* Encoder.stack
    sink,      \* the bytes the Encoder's writer has received
    eres,      \* what the last Encoder::write returned ("none" before the first)
    elast,     \* the event given to the last Encoder::write
    eprev,     \* Encoder.stack as it was before the last Encoder::write
    nwrites,   \* the number of Encoder::write calls made
    written,   \* the events Encoder::write has accepted (returned Ok), in order
    ehist,     \* Encoder.stack as it was after each accepted Encoder::write
    failed,    \* TRUE once some Encoder::write returned a structural error
    open,      \* one entry [size, count] per structure opened by an accepted
               \* Start and not yet closed by an accepted End: the number of
               \* child events it is to hold and the number accepted so far
    dstack,    \* Decoder.stack
    buf,       \* the bytes of the Decoder's reader not yet consumed
    dres,      \* what the last Decoder::read returned
    devents,   \* the events Decoder::read has returned, in order
    dprev,     \* Decoder.stack as it was before the last Decoder::read
    nreads,    \* the number of Decoder::read calls made
    dfailed,   \* TRUE once some Decoder::read returned an error
    truncated, \* TRUE once a Decoder::read, made when none had failed before,
               \* failed because the buffer ran out
    ended,     \* TRUE once a Decoder::read returned end-of-stream (Ok(None))
    alt        \* a second Decoder, reading the other wire form of the same value

vars == <<mode, dict, doc, estack, sink, eres, elast, eprev, nwrites, written,
          ehist, failed, open, dstack, buf, dres, devents, dprev, nreads, dfailed,
          truncated, ended, alt>>

encVars == <<estack, sink, eres, elast, eprev, nwrites, written, ehist, failed,
            open>>
decVars == <<dstack, buf, dres, devents, dprev, nreads, dfailed, truncated,
            ended>>

----------------------------------------------------------------------------
(* Program constants *)

\* encoder.rs:33, decoder.rs:105: lengths below 0xEF take one byte
LengthLimit == 239
\* encoder.rs:151, 191: arrays and maps below 0b00001111 entries use the compact tag
CompactLimit == 15
\* encoder.rs:45: dictionary indices up to 0b01111111 use the inline tag
InlineDictMax == 127

\* lib.rs:33: the tree encoder writes lengths below 0xF0 in one byte
WideLengthLimit == 240

----------------------------------------------------------------------------
(* Sequences and bytes *)

Last(s) == s[Len(s)]
Front(s) == SubSeq(s, 1, Len(s) - 1)
Reverse(s) == [i \in 1..Len(s) |-> s[Len(s) + 1 - i]]
Drop(s, n) == SubSeq(s, n + 1, Len(s))
Take(s, n) == SubSeq(s, 1, n)
Repeat(x, n) == [i \in 1..n |-> x]

RECURSIVE LEValue(_)
\* byteorder's LittleEndian read of an unsigned integer: first byte least significant
LEValue(bytes) ==
    IF bytes = <<>> THEN 0 ELSE Head(bytes) + 256 * LEValue(Tail(bytes))

IsCont(b) == b >= 128 /\ b <= 191

\* the number of bytes of the well-formed UTF-8 sequence s starts with (no
\* overlong form, no surrogate, nothing above U+10FFFF), 0 if it starts with none
CharLen(s) ==
    LET b == s[1]
        n == Len(s)
    IN  IF b < 128 THEN 1
        ELSE IF b >= 194 /\ b <= 223
             THEN IF n >= 2 /\ IsCont(s[2]) THEN 2 ELSE 0
        ELSE IF b >= 224 /\ b <= 239
             THEN IF /\ n >= 3
                     /\ IsCont(s[2]) /\ IsCont(s[3])
                     /\ (b = 224 => s[2] >= 160)
                     /\ (b = 237 => s[2] <= 159)
                  THEN 3 ELSE 0
        ELSE IF b >= 240 /\ b <= 244
             THEN IF /\ n >= 4
                     /\ IsCont(s[2]) /\ IsCont(s[3]) /\ IsCont(s[4])
                     /\ (b = 240 => s[2] >= 144)
                     /\ (b = 244 => s[2] <= 143)
                  THEN 4 ELSE 0
        ELSE 0

RECURSIVE ValidUTF8(_)
\* std::str::from_utf8 succeeds: s is a sequence of well-formed UTF-8 sequences
ValidUTF8(s) ==
    IF s = <<>> THEN TRUE
    ELSE IF CharLen(s) = 0 THEN FALSE
    ELSE ValidUTF8(Drop(s, CharLen(s)))

----------------------------------------------------------------------------
(* Events: decoder.rs:47-60 *)

Ev(t, v) == [t |-> t, v |-> v]
Nil == Ev("Nil", <<>>)
Boolean(b) == Ev("Boolean", IF b THEN <<1>> ELSE <<0>>)
End == Ev("End", <<>>)
NoEvent == Ev("none", <<>>)

StartKinds == {"StartArray", "StartStruct", "StartMap", "StartOpenStruct"}
IsStart(e) == e.t \in StartKinds
IsKnown(e) == IsStart(e) /\ e.v # <<>>

\* payload width in bytes of the fixed-width scalars
FixedWidth(t) ==
    CASE t \in {"U8", "I8"} -> 1
      [] t \in {"U16", "I16"} -> 2
      [] t \in {"U32", "I32", "F32"} -> 4
      [] t \in {"U64", "I64", "F64"} -> 8

FixedKinds == {"U8", "U16", "U32", "U64", "I8", "I16", "I32", "I64", "F32", "F64"}

\* the tag byte of each fixed-width scalar: encoder.rs:100-142, decoder.rs:251-261
FixedTag(t) ==
    CASE t = "U8" -> 16 [] t = "U16" -> 17 [] t = "U32" -> 18 [] t = "U64" -> 19
      [] t = "I8" -> 20 [] t = "I16" -> 21 [] t = "I32" -> 22 [] t = "I64" -> 23
      [] t = "F32" -> 26 [] t = "F64" -> 27

----------------------------------------------------------------------------
(* Encoder: src/src/encoder.rs *)

\* enum Size
SizeU64(n) == [k |-> "U64", n |-> n, modulo |-> 0, required |-> 0]
Streaming(n, modulo, required) ==
    [k |-> "Streaming", n |-> n, modulo |-> modulo, required |-> required]

\* Encoder::new: the reverse index keeps, for a string listed twice, its last index
InDictionary(d, s) == \E i \in 1..Len(d) : d[i] = s
DictionaryIndex(d, s) ==
    CHOOSE i \in 0..(Len(d) - 1) :
        /\ d[i + 1] = s
        /\ \A j \in 0..(Len(d) - 1) : d[j + 1] = s => j <= i

\* What a call asks of the writer: the bytes, in order, and whether the code
\* panics ("Not implemented yet") once they are written.
Plan(bytes, panics) == [bytes |-> bytes, panics |-> panics]
Then(p, q) == IF p.panics THEN p ELSE Plan(p.bytes \o q.bytes, q.panics)

\* Encoder::write_length
write_length(length) ==
    IF length.k = "U64" /\ length.n < LengthLimit
    THEN Plan(<<length.n>>, FALSE)
    ELSE Plan(<<>>, TRUE)

\* Encoder::write_string
write_string(d, s) ==
    IF InDictionary(d, s)
    THEN IF DictionaryIndex(d, s) <= InlineDictMax
         THEN Plan(<<128 + DictionaryIndex(d, s)>>, FALSE)
         ELSE Plan(<<>>, TRUE)
    ELSE Then(Then(Plan(<<9>>, FALSE), write_length(SizeU64(Len(s)))),
              Plan(s, FALSE))

\* Encoder::write, the arms of the scalar events: tag and payload
ScalarPlan(d, e) ==
    CASE e.t = "Nil" -> Plan(<<1>>, FALSE)
      [] e.t = "Boolean" -> Plan(IF e.v = <<1>> THEN <<3>> ELSE <<2>>, FALSE)
      [] e.t \in FixedKinds -> Plan(<<FixedTag(e.t)>> \o Reverse(e.v), FALSE)
      [] e.t = "Fixnum" -> Plan(<<>>, TRUE)
      [] e.t = "Binary" ->
            Then(Then(Plan(<<8>>, FALSE), write_length(SizeU64(Len(e.v)))),
                 Plan(e.v, FALSE))
      [] e.t = "String" -> write_string(d, e.v)

\* Encoder::push_stack: the frame pushed back for the parent
Pushed(remaining) ==
    IF remaining.k = "U64"
    THEN SizeU64(remaining.n - 1)
    ELSE Streaming(remaining.n + 1, remaining.modulo, remaining.required)

\* the frame a Start event pushes for its structure (stack_size / structure_size
\* of the arms of Encoder::write)
StackSize(e) ==
    CASE e.t = "StartArray" ->
            IF e.v = <<>> THEN Streaming(0, 1, 0) ELSE SizeU64(e.v[1])
      [] e.t = "StartStruct" ->
            IF e.v = <<>> THEN Streaming(0, 1, 1) ELSE SizeU64(1 + e.v[1])
      [] e.t = "StartMap" ->
            IF e.v = <<>> THEN Streaming(0, 2, 0) ELSE SizeU64(2 * e.v[1])
      [] e.t = "StartOpenStruct" ->
            IF e.v = <<>> THEN Streaming(0, 2, 1) ELSE SizeU64(1 + 2 * e.v[1])

\* the value handed to write_length by the general-form arms
HeaderLength(e) ==
    CASE e.t = "StartArray" -> StackSize(e)
      [] e.t = "StartStruct" ->
            IF e.v = <<>> THEN Streaming(0, 1, 1) ELSE SizeU64(e.v[1])
      [] e.t = "StartMap" -> StackSize(e)
      [] e.t = "StartOpenStruct" ->
            IF e.v = <<>> THEN Streaming(0, 2, 1) ELSE SizeU64(e.v[1])

\* the guard of the compact arms taken as `length <= 0b00001111`
IsCompactStart_Inclusive(e) ==
    /\ e.t \in {"StartArray", "StartMap"}
    /\ e.v # <<>>
    /\ e.v[1] <= CompactLimit

\* the arms of StartArray and StartMap guarded by `length < 0b00001111`
IsCompactStart(e) ==
    /\ e.t \in {"StartArray", "StartMap"}
    /\ e.v # <<>>
    /\ e.v[1] < CompactLimit

GeneralTag(t) ==
    CASE t = "StartArray" -> 10 [] t = "StartStruct" -> 11
      [] t = "StartMap" -> 12 [] t = "StartOpenStruct" -> 13

CompactTag(t) == IF t = "StartArray" THEN 32 ELSE 48

StartPlan(e) ==
    IF IsCompactStart(e)
    THEN Plan(<<CompactTag(e.t) + e.v[1]>>, FALSE)
    ELSE Then(Plan(<<GeneralTag(e.t)>>, FALSE), write_length(HeaderLength(e)))

\* the End arm of Encoder::write: the guard that accepts End on the popped frame
EndLegal(remaining) ==
    \/ /\ remaining.k = "Streaming"
       /\ remaining.n >= remaining.required
       /\ remaining.n % remaining.modulo = remaining.required
    \/ remaining = SizeU64(0)

\* The writer: `room` is how many bytes it takes during this call before it
\* returns an error; room.limited = FALSE is a writer that never fails (Vec<u8>).
NoLimit == [limited |-> FALSE, n |-> 0]
Room(n) == [limited |-> TRUE, n |-> n]
Fits(bytes, room) == ~room.limited \/ Len(bytes) <= room.n
Emit(p, room) ==
    IF Fits(p.bytes, room)
    THEN [out |-> p.bytes, res |-> IF p.panics THEN "panic" ELSE "Ok"]
    ELSE [out |-> Take(p.bytes, room.n), res |-> "IoError"]

EncResult(stack, out, res) == [stack |-> stack, out |-> out, res |-> res]

\* a scalar arm of Encoder::write: the frame is pushed back, counted down, once
\* the payload is written
WriteScalarArm(remaining, rest, w) ==
    EncResult(IF w.res = "Ok" THEN rest \o <<Pushed(remaining)>> ELSE rest,
              w.out, w.res)

\* a Start arm of Encoder::write: the compact arms write the tag and then push
\* the two frames; the general arms push them and then write
WriteStartArm(remaining, rest, e, w) ==
    IF IsCompactStart(e) /\ w.res # "Ok"
    THEN EncResult(rest, w.out, w.res)
    ELSE EncResult(rest \o <<Pushed(remaining), StackSize(e)>>, w.out, w.res)

\* Encoder::write writing the event before it looks at a frame that is at zero
WriteFrame_WriteThenCheck(remaining, rest, d, e, room) ==
    IF remaining = SizeU64(0)
    THEN IF e # End
         THEN EncResult(rest,
                        IF IsStart(e) THEN StartPlan(e).bytes
                        ELSE ScalarPlan(d, e).bytes,
                        "MissingEnd")
         ELSE IF Len(rest) # 0 THEN EncResult(rest, <<>>, "Ok")
         ELSE EncResult(rest, <<>>, "EndOfStream")
    ELSE IF e = End
         THEN IF EndLegal(remaining)
              THEN EncResult(rest, <<>>, "Ok")
              ELSE EncResult(rest, <<>>, "InvalidEnd")
    ELSE IF IsStart(e)
         THEN WriteStartArm(remaining, rest, e, Emit(StartPlan(e), room))
    ELSE WriteScalarArm(remaining, rest, Emit(ScalarPlan(d, e), room))

\* Encoder::write once the frame `remaining` has been popped off the stack
WriteFrame(remaining, rest, d, e, room) ==
    IF remaining = SizeU64(0)
    THEN IF e # End THEN EncResult(rest, <<>>, "MissingEnd")
         ELSE IF Len(rest) # 0 THEN EncResult(rest, <<>>, "Ok")
         ELSE EncResult(rest, <<>>, "EndOfStream")
    ELSE IF e = End
         THEN IF EndLegal(remaining)
              THEN EncResult(rest, <<>>, "Ok")
              ELSE EncResult(rest, <<>>, "InvalidEnd")
    ELSE IF IsStart(e)
         THEN WriteStartArm(remaining, rest, e, Emit(StartPlan(e), room))
    ELSE WriteScalarArm(remaining, rest, Emit(ScalarPlan(d, e), room))

\* Encoder::write: the stack after the call, the bytes the writer received during
\* it, and what the call returned
Write(stack, d, e, room) ==
    IF stack = <<>>
    THEN EncResult(stack, <<>>, "EndOfStream")
    ELSE WriteFrame(Last(stack), Front(stack), d, e, room)

StructuralErrors == {"MissingEnd", "InvalidEnd", "EndOfStream"}

----------------------------------------------------------------------------
(* Decoder: src/src/decoder.rs *)

\* What reading a payload gives: the value, the bytes left, and the error code
\* ("" when it succeeded).
Got(val, rest) == [val |-> val, rest |-> rest, code |-> ""]
Fail(code, rest) == [val |-> <<>>, rest |-> rest, code |-> code]

\* byteorder's read_u8 / read_u16 / ... on the borrowed buffer: `width` bytes,
\* or an I/O error (UnexpectedEOF wrapped by From<byteorder::Error>) after the
\* reader has handed out whatever bytes were left
ReadBytes(b, width) ==
    IF Len(b) >= width
    THEN Got(Take(b, width), Drop(b, width))
    ELSE Fail("IoError", <<>>)

\* a fixed-width unsigned integer read as usize
ToUInt(r) == IF r.code = "" THEN Got(<<LEValue(r.val)>>, r.rest) ELSE r
ReadUInt(b, width) == ToUInt(ReadBytes(b, width))

\* Decoder::read_length, after its first byte x
LengthOf(x, rest) ==
    IF x < LengthLimit THEN Got(<<x>>, rest)
    ELSE IF x = 241 THEN ReadUInt(rest, 1)
    ELSE IF x = 242 THEN ReadUInt(rest, 2)
    ELSE IF x = 243 THEN ReadUInt(rest, 4)
    ELSE IF x = 244 THEN ReadUInt(rest, 8)
    ELSE Fail("InvalidLength", rest)

LengthAfter(m) == IF m.code # "" THEN m ELSE LengthOf(m.val[1], m.rest)

\* Decoder::read_length
read_length(b) == LengthAfter(ReadBytes(b, 1))

\* Decoder::read_binary, after its length l
BinaryOf(l) ==
    IF l.code # "" THEN l
    ELSE IF l.val[1] > Len(l.rest) THEN Fail("UnexpectedEOF", l.rest)
    ELSE Got(Take(l.rest, l.val[1]), Drop(l.rest, l.val[1]))

\* Decoder::read_binary
read_binary(b) == BinaryOf(read_length(b))

\* Decoder::read_string_data consuming what is left before it reports the
\* missing bytes
read_string_data_Consuming(b, length) ==
    IF length > Len(b) THEN Fail("UnexpectedEOF", <<>>)
    ELSE IF ValidUTF8(Take(b, length))
         THEN Got(Take(b, length), Drop(b, length))
         ELSE Fail("InvalidUTF8", Drop(b, length))

\* Decoder::read_string_data
read_string_data(b, length) ==
    IF length > Len(b) THEN Fail("UnexpectedEOF", b)
    ELSE IF ValidUTF8(Take(b, length))
         THEN Got(Take(b, length), Drop(b, length))
         ELSE Fail("InvalidUTF8", Drop(b, length))

\* Decoder::read_dictionary refusing the last index of the dictionary
read_dictionary_ShortByOne(d, b, index) ==
    IF index + 1 < Len(d) THEN Got(d[index + 1], b)
    ELSE Fail("InvalidDictionaryIndex", b)

\* Decoder::read_dictionary
read_dictionary(d, b, index) ==
    IF index < Len(d) THEN Got(d[index + 1], b)
    ELSE Fail("InvalidDictionaryIndex", b)

\* the index escapes 0xF5..0xF8 of Decoder::read_string
DictionaryAt(d, i) ==
    IF i.code # "" THEN i ELSE read_dictionary(d, i.rest, i.val[1])
DictionaryEscape(d, b, width) == DictionaryAt(d, ReadUInt(b, width))

\* the length escapes 0xF1..0xF4 of Decoder::read_string
StringData(l) == IF l.code # "" THEN l ELSE read_string_data(l.rest, l.val[1])

\* Decoder::read_string, after its first byte x
StringOf(d, x, rest) ==
    IF x < LengthLimit THEN read_string_data(rest, x)
    ELSE IF x = 241 THEN StringData(ReadUInt(rest, 1))
    ELSE IF x = 242 THEN StringData(ReadUInt(rest, 2))
    ELSE IF x = 243 THEN StringData(ReadUInt(rest, 4))
    ELSE IF x = 244 THEN StringData(ReadUInt(rest, 8))
    ELSE IF x = 245 THEN DictionaryEscape(d, rest, 1)
    ELSE IF x = 246 THEN DictionaryEscape(d, rest, 2)
    ELSE IF x = 247 THEN DictionaryEscape(d, rest, 4)
    ELSE IF x = 248 THEN DictionaryEscape(d, rest, 8)
    ELSE Fail("InvalidLength", rest)

StringAfter(d, m) == IF m.code # "" THEN m ELSE StringOf(d, m.val[1], m.rest)

\* Decoder::read_string
read_string(d, b) == StringAfter(d, ReadBytes(b, 1))

\* the tags of Decoder::read that open a structure, by the order of its match arms
TagStart(x) ==
    CASE x = 10 -> "StartArray"
      [] x = 11 -> "StartStruct"
      [] x = 12 -> "StartMap"
      [] x = 13 -> "StartOpenStruct"
      [] x >= 128 -> "none"
      [] x \div 32 = 3 -> "none"
      [] x \div 16 = 2 -> "StartArray"
      [] x \div 16 = 3 -> "StartMap"
      [] OTHER -> "none"

\* StartLength with the compact tags masked like the inline string tag
\* (0b00011111 instead of 0b00001111)
StartLength_WideMask(x, b) ==
    IF x \in {10, 11, 12, 13} THEN read_length(b) ELSE Got(<<x % 32>>, b)

\* the length of the structure a start tag opens: read_length for the general
\* tags, the low four bits of the compact tags
StartLength(x, b) ==
    IF x \in {10, 11, 12, 13} THEN read_length(b) ELSE Got(<<x % 16>>, b)

\* the frame pushed for a struct taken as that of an array (no slot for the type)
FrameSize_StructAsArray(kind, length) ==
    CASE kind = "StartArray" -> length
      [] kind = "StartStruct" -> length
      [] kind = "StartMap" -> 2 * length
      [] kind = "StartOpenStruct" -> 2 * length + 1

\* the frame Decoder::read pushes for the structure
FrameSize(kind, length) ==
    CASE kind = "StartArray" -> length
      [] kind = "StartStruct" -> length + 1
      [] kind = "StartMap" -> 2 * length
      [] kind = "StartOpenStruct" -> 2 * length + 1

ScalarTags == {1, 2, 3, 8, 9, 16, 17, 18, 19, 20, 21, 22, 23, 26, 27}
FixedOfTag(x) == CHOOSE t \in FixedKinds : FixedTag(t) = x

\* the event of variant t holding the payload read
AsEvent(t, r) == IF r.code = "" THEN Got(Ev(t, r.val), r.rest) ELSE r

\* a fixed-width payload, read little-endian
Fixed(r) == IF r.code = "" THEN Got(Reverse(r.val), r.rest) ELSE r

\* the scalar arms of Decoder::read: the event read after tag x
ReadScalar(d, x, b) ==
    CASE x = 1 -> Got(Nil, b)
      [] x = 2 -> Got(Boolean(FALSE), b)
      [] x = 3 -> Got(Boolean(TRUE), b)
      [] x = 8 -> AsEvent("Binary", read_binary(b))
      [] x = 9 -> AsEvent("String", read_string(d, b))
      [] x \in {16, 17, 18, 19, 20, 21, 22, 23, 26, 27} ->
            AsEvent(FixedOfTag(x), Fixed(ReadBytes(b, FixedWidth(FixedOfTag(x)))))
      [] x >= 128 -> AsEvent("String", read_dictionary(d, b, x % 128))
      [] x \div 32 = 3 -> AsEvent("String", read_string_data(b, x % 32))
      [] OTHER -> Fail("InvalidType", b)

DecResult(stack, rest, kind, ev, code) ==
    [stack |-> stack, buf |-> rest, kind |-> kind, ev |-> ev, code |-> code]

\* a structure arm that pushes the structure's frame only
ReadStartArm_NoParent(remaining, rest, t, l) ==
    IF l.code # ""
    THEN DecResult(rest, l.rest, "err", NoEvent, l.code)
    ELSE DecResult(rest \o <<FrameSize(t, l.val[1])>>,
                   l.rest, "event", Ev(t, l.val), "")

\* a structure arm of Decoder::read, after the length l: the parent's frame is
\* pushed back, counted down, and the structure's frame is pushed
ReadStartArm(remaining, rest, t, l) ==
    IF l.code # ""
    THEN DecResult(rest, l.rest, "err", NoEvent, l.code)
    ELSE DecResult(rest \o <<remaining - 1, FrameSize(t, l.val[1])>>,
                   l.rest, "event", Ev(t, l.val), "")

\* a scalar arm of Decoder::read, after the payload r: the frame is pushed back,
\* counted down
ReadScalarArm(remaining, rest, r) ==
    IF r.code # ""
    THEN DecResult(rest, r.rest, "err", NoEvent, r.code)
    ELSE DecResult(rest \o <<remaining - 1>>, r.rest, "event", r.val, "")

\* Decoder::read after the tag byte x
ReadTag(remaining, rest, x, after, d) ==
    IF x = 24
    THEN DecResult(rest, after, "panic", NoEvent, "")
    ELSE IF TagStart(x) # "none"
         THEN ReadStartArm(remaining, rest, TagStart(x), StartLength(x, after))
    ELSE ReadScalarArm(remaining, rest, ReadScalar(d, x, after))

\* Decoder::read taking a byte off the buffer when it closes a frame
ReadFrame_EndByte(remaining, rest, b, d) ==
    IF remaining = 0
    THEN IF Len(rest) = 0
         THEN DecResult(rest, Drop(b, 1), "eos", NoEvent, "")
         ELSE DecResult(rest, Drop(b, 1), "event", End, "")
    ELSE IF b = <<>>
         THEN DecResult(rest, b, "err", NoEvent, "IoError")
    ELSE ReadTag(remaining, rest, Head(b), Tail(b), d)

\* Decoder::read going on to a further top-level value when the root frame is
\* at zero and bytes are left
ReadFrame_NextValue(remaining, rest, b, d) ==
    IF remaining = 0 /\ Len(rest) = 0 /\ b # <<>>
    THEN ReadTag(1, rest, Head(b), Tail(b), d)
    ELSE IF remaining = 0
         THEN IF Len(rest) = 0
              THEN DecResult(rest, b, "eos", NoEvent, "")
              ELSE DecResult(rest, b, "event", End, "")
    ELSE IF b = <<>>
         THEN DecResult(rest, b, "err", NoEvent, "IoError")
    ELSE ReadTag(remaining, rest, Head(b), Tail(b), d)

\* Decoder::read once the frame `remaining` has been popped off the stack
ReadFrame(remaining, rest, b, d) ==
    IF remaining = 0
    THEN IF Len(rest) = 0
         THEN DecResult(rest, b, "eos", NoEvent, "")
         ELSE DecResult(rest, b, "event", End, "")
    ELSE IF b = <<>>
         THEN DecResult(rest, b, "err", NoEvent, "IoError")
    ELSE ReadTag(remaining, rest, Head(b), Tail(b), d)

\* Decoder::read returning end-of-stream again once the stack is empty
Read_EndAgain(stack, b, d) ==
    IF stack = <<>>
    THEN DecResult(stack, b, "eos", NoEvent, "")
    ELSE ReadFrame(Last(stack), Front(stack), b, d)

\* Decoder::read: the stack and the buffer after the call and what it returned:
\* kind "event" (Ok(Some(ev))), "eos" (Ok(None)), "err" (Err(code)) or "panic"
Read(stack, b, d) ==
    IF stack = <<>>
    THEN DecResult(stack, b, "err", NoEvent, "EndOfStream")
    ELSE ReadFrame(Last(stack), Front(stack), b, d)

----------------------------------------------------------------------------
(* Bounds *)

\* Encoder::write calls made by the free-running encoder harness
MaxWrites == 4
\* Decoder::read calls made on one buffer by the decoder harness
MaxReads == 6
\* length of the buffers the decoder harness draws
MaxBuf == 3
\* largest declared length of the structures the round-trip harness writes
MaxLen == 16

\* Encoder::write calls made by the failing-writer harness
MaxSinkWrites == 3
\* largest index of the dictionary of the failing-writer harness
MaxIndex == 129

\* Decoder::read calls made on one buffer by the payload harness
MaxPayReads == 2
\* largest number of payload bytes in the buffers of the payload harness
MaxPayload == 3

\* the lengths 0..MaxShortLength are all drawn by the length harness
MaxShortLength == 20

----------------------------------------------------------------------------
(* The objects after construction *)

NoResult == [kind |-> "none", ev |-> NoEvent, code |-> ""]

\* Encoder::new: stack: vec![Size::U64(1)]
EncoderNew ==
    /\ estack = <<SizeU64(1)>>
    /\ sink = <<>>
    /\ eres = "none"
    /\ elast = NoEvent
    /\ eprev = <<>>
    /\ nwrites = 0
    /\ written = <<>>
    /\ ehist = <<>>
    /\ failed = FALSE
    /\ open = <<>>

\* Decoder::new on the bytes b: stack: vec![1]
DecoderNew(b) ==
    /\ dstack = <<1>>
    /\ buf = b
    /\ dres = NoResult
    /\ devents = <<>>
    /\ dprev = <<>>
    /\ nreads = 0
    /\ dfailed = FALSE
    /\ truncated = FALSE
    /\ ended = FALSE

\* a second decoder, as constructed by Decoder::new on the bytes b
AltNew(b) ==
    [stack |-> <<1>>, buf |-> b, res |-> NoResult, events |-> <<>>, wire |-> b]

\* Decoder::read on the second decoder
AltReturned(a, r) ==
    [stack |-> r.stack,
     buf |-> r.buf,
     res |-> [kind |-> r.kind, ev |-> r.ev, code |-> r.code],
     events |-> IF r.kind = "event" THEN Append(a.events, r.ev) ELSE a.events,
     wire |-> a.wire]
AltRead(a, d) == AltReturned(a, Read(a.stack, a.buf, d))

----------------------------------------------------------------------------
(* One call of Encoder::write, with the caller's bookkeeping *)

\* the number of child events a known-length structure holds: n entries of an
\* array, n keys and n values of a map, n fields and the type of a struct,
\* n names, n fields and the type of an open struct
Children(e) ==
    CASE e.t = "StartArray" -> e.v[1]
      [] e.t = "StartMap" -> 2 * e.v[1]
      [] e.t = "StartStruct" -> e.v[1] + 1
      [] e.t = "StartOpenStruct" -> 2 * e.v[1] + 1

Counted(o) ==
    IF o = <<>> THEN o ELSE [o EXCEPT ![Len(o)].count = @ + 1]

\* the caller's view of the open structures after event e was accepted
Opened(o, e) ==
    IF e = End THEN (IF o = <<>> THEN o ELSE Front(o))
    ELSE IF IsKnown(e)
         THEN Counted(o) \o <<[size |-> Children(e), count |-> 0]>>
    ELSE IF IsStart(e)
         THEN Counted(o) \o <<[size |-> -1, count |-> 0]>>
    ELSE Counted(o)

Written(e, r) ==
    /\ eres # "panic"
    /\ estack' = r.stack
    /\ sink' = sink \o r.out
    /\ eres' = r.res
    /\ elast' = e
    /\ eprev' = estack
    /\ nwrites' = nwrites + 1
    /\ written' = IF r.res = "Ok" THEN Append(written, e) ELSE written
    /\ ehist' = IF r.res = "Ok" THEN Append(ehist, r.stack) ELSE ehist
    /\ failed' = (failed \/ r.res \in StructuralErrors)
    /\ open' = IF r.res = "Ok" THEN Opened(open, e) ELSE open

DoWrite(e, room) == Written(e, Write(estack, dict, e, room))

----------------------------------------------------------------------------
(* One call of Decoder::read, with the caller's bookkeeping *)

\* the read failed because the reader had no more bytes
RanOut(r) == r.kind = "err" /\ r.code \in {"IoError", "UnexpectedEOF"}

Returned(r) ==
    /\ dres.kind # "panic"
    /\ dstack' = r.stack
    /\ buf' = r.buf
    /\ dres' = [kind |-> r.kind, ev |-> r.ev, code |-> r.code]
    /\ devents' = IF r.kind = "event" THEN Append(devents, r.ev) ELSE devents
    /\ dprev' = dstack
    /\ nreads' = nreads + 1
    /\ dfailed' = (dfailed \/ r.kind = "err")
    /\ truncated' = (truncated \/ (~dfailed /\ RanOut(r)))
    /\ ended' = (ended \/ r.kind = "eos")

DoRead == Returned(Read(dstack, buf, dict))

----------------------------------------------------------------------------
(* The encoder harness: a caller writing any events to a fresh Encoder *)

Str(s) == Ev("String", s)
U8(n) == Ev("U8", <<n>>)
Some(t, n) == Ev(t, <<n>>)
None(t) == Ev(t, <<>>)

EncDictionary == << <<107>> >>

ScalarEvents == {Nil, U8(7), Str(<<97>>), Str(<<107>>)}

StartEvents ==
    {Some("StartArray", 1), Some("StartArray", 2), None("StartArray"),
     Some("StartStruct", 0), Some("StartStruct", 1), None("StartStruct"),
     Some("StartMap", 0), Some("StartMap", 1), None("StartMap"),
     Some("StartOpenStruct", 0), Some("StartOpenStruct", 1),
     None("StartOpenStruct")}

Init ==
    /\ mode = "enc"
    /\ dict = EncDictionary
    /\ doc = <<>>
    /\ EncoderNew
    /\ DecoderNew(<<>>)
    /\ alt = AltNew(<<>>)

WriteScalar ==
    /\ mode = "enc"
    /\ nwrites < MaxWrites
    /\ \E e \in ScalarEvents : DoWrite(e, NoLimit)
    /\ UNCHANGED <<mode, dict, doc, decVars, alt>>

WriteStart ==
    /\ mode = "enc"
    /\ nwrites < MaxWrites
    /\ \E e \in StartEvents : DoWrite(e, NoLimit)
    /\ UNCHANGED <<mode, dict, doc, decVars, alt>>

WriteEnd ==
    /\ mode = "enc"
    /\ nwrites < MaxWrites
    /\ DoWrite(End, NoLimit)
    /\ UNCHANGED <<mode, dict, doc, decVars, alt>>

Next == WriteScalar \/ WriteStart \/ WriteEnd

Spec == Init /\ [][Next]_vars

----------------------------------------------------------------------------
(* Claims about the encoder, checked under Spec *)

Wrote == nwrites' = nwrites + 1

\* the structure the caller has open is a known-length one
KnownOpen == open # <<>> /\ Last(open).size >= 0
Full(o) == o.count = o.size

\* the single top-level value has been completely written
Complete == written # <<>> /\ open = <<>>

\* C2: once a write has returned a structural error (MissingEnd, InvalidEnd or
\* EndOfStream), every later write is rejected with InvalidState.
C2_PoisonedAfterError ==
    [][(failed /\ Wrote) => eres' = "InvalidState"]_vars

\* C5: inside a structure opened with a known length, End is accepted exactly
\* when the number of child events accepted directly inside it equals its frame
\* size (n, 2n, n+1, 2n+1), and at that point every other event is rejected
\* with MissingEnd.
C5_EndExactlyWhenFull ==
    [][(Wrote /\ KnownOpen) =>
          /\ (elast' = End => ((eres' = "Ok") <=> Full(Last(open))))
          /\ (elast' # End /\ Full(Last(open)) => eres' = "MissingEnd")]_vars

\* C5 on the runs in which no write has been rejected before: the same
\* statement, which the encoder meets as long as it has reported no error.
C5_HoldsBeforeAnyError ==
    [][(Wrote /\ KnownOpen /\ ~failed) =>
          /\ (elast' = End => ((eres' = "Ok") <=> Full(Last(open))))
          /\ (elast' # End /\ Full(Last(open)) => eres' = "MissingEnd")]_vars

\* C6: End written to a known-length structure before its declared number of
\* children has been written fails with MissingEnd.
C6_EarlyEndIsMissingEnd ==
    [][(Wrote /\ elast' = End /\ KnownOpen /\ ~Full(Last(open)))
          => eres' = "MissingEnd"]_vars

\* C7: End written while only the root frame is on the stack fails with
\* EndOfStream, as the very first event and after the top-level value.
C7_EndAtRootIsEndOfStream ==
    [][(Wrote /\ elast' = End /\ Len(estack) = 1) => eres' = "EndOfStream"]_vars

\* C8: once the top-level value has been completely written, every further
\* write, of any event, fails with EndOfStream.
C8_WriteAfterCompleteIsEndOfStream ==
    [][(Wrote /\ Complete) => eres' = "EndOfStream"]_vars

\* C9: every streaming frame can be closed: after some number of further child
\* events, each adding one to events-written, End is accepted on it (an array
\* after any number, a map after an even number, a struct or an open struct once
\* its terminal slot is written).
C9_StreamingFrameClosable ==
    \A i \in 1..Len(estack) :
        estack[i].k = "Streaming" =>
            \E m \in 0..2 :
                EndLegal(Streaming(estack[i].n + m, estack[i].modulo,
                                   estack[i].required))

----------------------------------------------------------------------------
(* The decoder harness: a caller reading any buffer with a fresh Decoder *)

ByteAlphabet == {0, 1, 2, 9, 10, 11, 12, 13, 24, 33, 49, 97, 128}

Buffers == UNION {[1..n -> ByteAlphabet] : n \in 0..MaxBuf}

DecDictionaries == {<<>>, << <<107>> >>}

InitDec ==
    /\ mode = "dec"
    /\ dict \in DecDictionaries
    /\ EncoderNew
    /\ \E b \in Buffers :
          /\ doc = b
          /\ DecoderNew(b)
    /\ alt = AltNew(<<>>)

ReadNext ==
    /\ mode = "dec"
    /\ nreads < MaxReads
    /\ DoRead
    /\ UNCHANGED <<mode, dict, doc, encVars, alt>>

NextDec == ReadNext

SpecDec == InitDec /\ [][NextDec]_vars

----------------------------------------------------------------------------
(* Claims about the decoder, checked under SpecDec *)

Count(events, kinds) ==
    Cardinality({i \in 1..Len(events) : events[i].t \in kinds})

Balanced(events) == Count(events, {"End"}) = Count(events, StartKinds)

\* the last read returned End
ReturnedEnd == dres.kind = "event" /\ dres.ev = End

\* C3: on a buffer that ends before the top-level value is complete, no read
\* returns the clean end-of-stream, also not a read made after an earlier read
\* has returned an error.
C3_NoCleanEndOnTruncatedBuffer == ~(truncated /\ dres.kind = "eos")

\* C4: in the events returned up to a clean end-of-stream there are as many End
\* as Start events, no prefix holds more End than Start events, and End is
\* returned exactly when the current frame is not the root and its remaining
\* count is zero.
C4_StructuralSoundness ==
    /\ Count(devents, {"End"}) <= Count(devents, StartKinds)
    /\ (dres.kind = "eos" => Balanced(devents))
    /\ (nreads > 0 => (ReturnedEnd <=> (Len(dprev) > 1 /\ Last(dprev) = 0)))

\* C4 on the runs in which no read has returned an error: the same statement.
C4_HoldsWithoutError == dfailed \/ C4_StructuralSoundness

----------------------------------------------------------------------------
(* The round-trip harness: a caller writes a well-formed event sequence to a
   fresh Encoder (writer: a Vec<u8>), then reads the bytes written with a fresh
   Decoder holding the same dictionary, until end-of-stream or an error *)

RtDictionary == << <<107>>, <<195, 169>> >>

\* one value of every scalar kind the encoder can write
RtScalars ==
    {Nil, Boolean(FALSE), Boolean(TRUE), U8(7),
     Ev("U16", <<1, 2>>), Ev("U32", <<1, 2, 3, 4>>),
     Ev("U64", <<1, 2, 3, 4, 5, 6, 7, 8>>),
     Ev("I8", <<255>>), Ev("I16", <<255, 254>>), Ev("I32", <<128, 0, 0, 1>>),
     Ev("I64", <<255, 0, 0, 0, 0, 0, 0, 1>>),
     Ev("F32", <<63, 128, 0, 0>>), Ev("F64", <<63, 240, 0, 0, 0, 0, 0, 0>>),
     Ev("Binary", <<>>), Ev("Binary", <<0, 255>>),
     Str(<<>>), Str(<<97>>), Str(<<107>>), Str(<<195, 169>>),
     Str(<<240, 159, 141, 170>>)}

\* the children the structures are filled with
RtChildren == {Nil, Str(<<107>>)}

\* a structure of declared length n holding its declared children
Flat(t, n, child) ==
    <<Some(t, n)>> \o Repeat(child, Children(Some(t, n))) \o <<End>>

\* an array of two entries: a structure, then a scalar
Nested(t, n, child) ==
    <<Some("StartArray", 2)>> \o Flat(t, n, child) \o <<child, End>>

Docs ==
    {<<e>> : e \in RtScalars}
    \cup {Flat(t, n, c) : t \in StartKinds, n \in 0..MaxLen, c \in RtChildren}
    \cup {Nested(t, n, Nil) : t \in StartKinds, n \in 0..2}

InitRT ==
    /\ mode = "rt_write"
    /\ dict = RtDictionary
    /\ doc \in Docs
    /\ EncoderNew
    /\ DecoderNew(<<>>)
    /\ alt = AltNew(<<>>)

RtWrite ==
    /\ mode = "rt_write"
    /\ nwrites < Len(doc)
    /\ eres \in {"none", "Ok"}
    /\ DoWrite(doc[nwrites + 1], NoLimit)
    /\ UNCHANGED <<mode, dict, doc, decVars, alt>>

RtHandOver ==
    /\ mode = "rt_write"
    /\ nwrites = Len(doc)
    /\ eres = "Ok"
    /\ mode' = "rt_read"
    /\ buf' = sink
    /\ UNCHANGED <<dict, doc, encVars, alt,
                   dstack, dres, devents, dprev, nreads, dfailed, truncated,
                   ended>>

RtRead ==
    /\ mode = "rt_read"
    /\ dres.kind \in {"none", "event"}
    /\ DoRead
    /\ UNCHANGED <<mode, dict, doc, encVars, alt>>

NextRT == RtWrite \/ RtHandOver \/ RtRead

SpecRT == InitRT /\ [][NextRT]_vars

\* C1: every event of a well-formed sequence E is accepted by Encoder.write, and
\* Decoder.read on the bytes written returns the events of E, in order, and
\* then end-of-stream.
C1_RoundTrip ==
    /\ (mode = "rt_write" => eres \in {"none", "Ok"})
    /\ (mode = "rt_read" =>
          /\ dres.kind \in {"none", "event", "eos"}
          /\ Len(devents) <= Len(doc)
          /\ devents = Take(doc, Len(devents))
          /\ (dres.kind = "eos" => devents = doc))

\* C1 for the sequences that hold no map of 15 or more entries
C1_HoldsWithoutLargeMap ==
    (\E i \in 1..Len(doc) : doc[i].t = "StartMap" /\ doc[i].v[1] >= CompactLimit)
    \/ C1_RoundTrip

----------------------------------------------------------------------------
(* The non-canonical harness: two fresh Decoders with the same dictionary read,
   call by call, two buffers that differ only in the wire form of one value:
   the first holds its general form, the second its compact form *)

CompactMax == CompactLimit - 1

NcDictionary == << <<107>> >>

\* strings of 0..14 bytes that are not in the dictionary
NcStrings ==
    {Repeat(97, n) : n \in 0..CompactMax}
    \cup {<<195, 169>>, <<240, 159, 141, 170>>, <<97, 195, 169, 98>>}

Form(general, compact, children) ==
    [general |-> general, compact |-> compact, children |-> children]

\* the two wire forms of an array header, of a map header and of a string, with
\* the number of child values the value holds
NcValues ==
    {Form(<<10, n>>, <<32 + n>>, n) : n \in 0..CompactMax}
    \cup {Form(<<12, n>>, <<48 + n>>, 2 * n) : n \in 0..CompactMax}
    \cup {Form(<<9, Len(str)>> \o str, <<96 + Len(str)>> \o str, 0) :
            str \in NcStrings}

\* what precedes the value: nothing, or the header of an array of two entries
NcBefore == {<<>>, <<34>>}

\* what follows the value: nothing, or Nil values for all its children and for
\* the rest of the enclosing array
NcAfter(f) == {<<>>, Repeat(1, f.children + 1)}

InitNC ==
    /\ mode = "nc"
    /\ dict = NcDictionary
    /\ doc = <<>>
    /\ EncoderNew
    /\ \E f \in NcValues : \E pre \in NcBefore : \E post \in NcAfter(f) :
          /\ DecoderNew(pre \o f.general \o post)
          /\ alt = AltNew(pre \o f.compact \o post)

NcRead ==
    /\ mode = "nc"
    /\ dres.kind \in {"none", "event"}
    /\ DoRead
    /\ alt' = AltRead(alt, dict)
    /\ UNCHANGED <<mode, dict, doc, encVars>>

NextNC == NcRead

SpecNC == InitNC /\ [][NextNC]_vars

\* C10: for every array or map of 0..14 entries and every non-dictionary string
\* of 0..14 bytes, reading the general form (0x0A / 0x0C + length byte, 0x09 +
\* length byte + bytes) returns the same events, and leaves the same nesting
\* stack, call after call, as reading the compact form (0x2n, 0x3n, 0x6n + bytes).
C10_NonCanonicalTolerance ==
    mode = "nc" => (devents = alt.events /\ dstack = alt.stack)

\* a map of 14 entries, its header read from the general form by one decoder and
\* from the compact form by the other, has been read to its End
C10_Witness ==
    /\ mode = "nc"
    /\ Len(devents) = 2 * CompactMax + 2
    /\ devents[1] = Some("StartMap", CompactMax)
    /\ Last(devents) = End
    /\ alt.wire[1] = 48 + CompactMax
    /\ dstack = <<0>>

----------------------------------------------------------------------------
(* Claims about the bytes Encoder::write hands to the writer *)

\* the bytes the writer received during the call
Emitted == SubSeq(sink', Len(sink) + 1, Len(sink'))

\* C11: an accepted StartArray(Some(n)) or StartMap(Some(n)) with n < 15 hands
\* the writer exactly one byte, 0x20|n for an array and 0x30|n for a map; with
\* n >= 15 the first byte handed over is the general tag, 0x0A or 0x0C.
C11_CompactHeaders ==
    [][(/\ Wrote
        /\ eres' = "Ok"
        /\ elast'.t \in {"StartArray", "StartMap"}
        /\ elast'.v # <<>>)
          => IF elast'.v[1] < 15
             THEN Emitted = <<(IF elast'.t = "StartArray" THEN 32 ELSE 48)
                               + elast'.v[1]>>
             ELSE /\ Len(Emitted) > 1
                  /\ Emitted[1] = (IF elast'.t = "StartArray" THEN 10 ELSE 12)]_vars

\* a map of 14 entries has been opened at top level: the writer holds 0x3E only
C11_Witness ==
    /\ mode = "rt_write"
    /\ elast = Some("StartMap", 14)
    /\ eres = "Ok"
    /\ sink = <<62>>

\* C12: an accepted String that is not in the dictionary and is shorter than 15
\* bytes is written in the compact form, the tag 0x60|length and then its bytes,
\* never as 0x09, length, bytes.
C12_ShortStringsCompact ==
    [][(/\ Wrote
        /\ eres' = "Ok"
        /\ elast'.t = "String"
        /\ ~InDictionary(dict, elast'.v)
        /\ Len(elast'.v) < 15)
          => Emitted = <<96 + Len(elast'.v)>> \o elast'.v]_vars

----------------------------------------------------------------------------
(* The failing-writer harness: a caller writing events to a fresh Encoder whose
   dictionary has more than 128 entries and whose writer may return an I/O
   error after taking some bytes of a call *)

\* entry i is a string of two ASCII letters, different for every i
SinkDictionary ==
    [i \in 1..(MaxIndex + 1) |-> <<97 + ((i - 1) \div 16), 97 + ((i - 1) % 16)>>]

\* the dictionary indices the harness writes the strings of
SinkIndices == {0, 1, InlineDictMax, InlineDictMax + 1, MaxIndex}

SinkScalars ==
    {Nil, U8(7), Ev("U16", <<1, 2>>), Ev("Binary", <<1, 2>>), Str(<<120>>)}

SinkStarts ==
    {Some("StartArray", 2), Some("StartArray", CompactLimit),
     Some("StartStruct", 1), Some("StartMap", 1), Some("StartMap", CompactLimit),
     Some("StartOpenStruct", 1)}

\* the writer takes every byte, or fails after 0, 1 or 2 bytes of the call
Rooms == {NoLimit, Room(0), Room(1), Room(2)}

InitSink ==
    /\ mode = "sink"
    /\ dict = SinkDictionary
    /\ doc = <<>>
    /\ EncoderNew
    /\ DecoderNew(<<>>)
    /\ alt = AltNew(<<>>)

SinkDictionaryString ==
    /\ mode = "sink"
    /\ nwrites < MaxSinkWrites
    /\ \E i \in SinkIndices : \E room \in Rooms : DoWrite(Str(dict[i + 1]), room)
    /\ UNCHANGED <<mode, dict, doc, decVars, alt>>

SinkScalar ==
    /\ mode = "sink"
    /\ nwrites < MaxSinkWrites
    /\ \E e \in SinkScalars : \E room \in Rooms : DoWrite(e, room)
    /\ UNCHANGED <<mode, dict, doc, decVars, alt>>

SinkStart ==
    /\ mode = "sink"
    /\ nwrites < MaxSinkWrites
    /\ \E e \in SinkStarts : \E room \in Rooms : DoWrite(e, room)
    /\ UNCHANGED <<mode, dict, doc, decVars, alt>>

SinkEnd ==
    /\ mode = "sink"
    /\ nwrites < MaxSinkWrites
    /\ DoWrite(End, NoLimit)
    /\ UNCHANGED <<mode, dict, doc, decVars, alt>>

NextSink == SinkDictionaryString \/ SinkScalar \/ SinkStart \/ SinkEnd

SpecSink == InitSink /\ [][NextSink]_vars

\* C13: a String that is in the dictionary, at any index i, is written as a
\* dictionary reference: the call returns (it does not abort), and unless it is
\* rejected for the nesting or fails on the writer it hands the writer the one
\* byte 0x80|i when i <= 127 and an index escape otherwise, never the literal
\* bytes of the string.
C13_DictionaryPriority ==
    [][(/\ Wrote
        /\ elast'.t = "String"
        /\ InDictionary(dict, elast'.v)
        /\ eres' \notin (StructuralErrors \cup {"IoError"}))
          => /\ eres' = "Ok"
             /\ Emitted # <<>>
             /\ Emitted # <<9, Len(elast'.v)>> \o elast'.v
             /\ Emitted # <<96 + Len(elast'.v)>> \o elast'.v
             /\ (DictionaryIndex(dict, elast'.v) <= 127
                   => Emitted = <<128 + DictionaryIndex(dict, elast'.v)>>)]_vars

\* C13 for the strings at the indices 0..127
C13_HoldsForInlineIndices ==
    [][(/\ Wrote
        /\ elast'.t = "String"
        /\ InDictionary(dict, elast'.v)
        /\ DictionaryIndex(dict, elast'.v) <= 127
        /\ eres' \notin (StructuralErrors \cup {"IoError"}))
          => /\ eres' = "Ok"
             /\ Emitted = <<128 + DictionaryIndex(dict, elast'.v)>>]_vars

\* C18: a write that fails with an I/O error of the writer leaves the nesting
\* stack as it was before the call.
C18_StackKeptOnWriterError ==
    [][(Wrote /\ eres' = "IoError") => estack' = estack]_vars

----------------------------------------------------------------------------
(* The payload harness: a caller reading, with a fresh Decoder, a buffer that
   holds one item built for the purpose: a dictionary reference in one of its
   five widths, a length escape cut short, or a Binary or String whose header
   declares a length and whose payload holds fewer, as many or more bytes *)

RECURSIVE LEBytes(_, _)
\* the `width` bytes of n, least significant first
LEBytes(n, width) ==
    IF width = 0 THEN <<>> ELSE <<n % 256>> \o LEBytes(n \div 256, width - 1)

Widths == {1, 2, 4, 8}
\* the position of a width among the escapes: 0xF1 + k for lengths, 0xF5 + k
\* for dictionary indices
WidthRank(w) == CASE w = 1 -> 0 [] w = 2 -> 1 [] w = 4 -> 2 [] w = 8 -> 3

\* an item: the bytes up to its payload, its payload bytes, and what it
\* declares (a dictionary index or a payload length; -1 when the header is cut)
Item(class, head, declared, payload) ==
    [class |-> class, head |-> head, declared |-> declared, payload |-> payload]

Wire(item) == item.head \o item.payload

PayDictionaries ==
    {<<>>, << <<107>> >>, << <<107>>, <<195, 169>> >>,
     << <<107>>, <<195, 169>>, <<>> >>}

PayIndices == {0, 1, 2, 3, 127, 128, 255, 256, 65535, 65536}

\* a dictionary reference: the inline tag 0x80|i, or 0x09 and the escape
\* 0xF5..0xF8 followed by the index in 1, 2, 4 or 8 bytes
References ==
    {Item("ref", <<128 + i>>, i, <<>>) : i \in {j \in PayIndices : j < 128}}
    \cup UNION {{Item("ref", <<9, 245 + WidthRank(w)>> \o LEBytes(i, w), i, <<>>) :
                    i \in {j \in PayIndices : w = 1 => j < 256}} :
                w \in Widths \ {2}}
    \cup {Item("ref", <<9, 246>> \o LEBytes(i, 2), i, <<>>) :
            i \in {j \in PayIndices : j < 65536}}

\* the tags after which Decoder::read reads a length
LengthTags == {8, 9, 10, 11, 12, 13}

\* a length escape 0xF1..0xF4 followed by fewer bytes than its width
CutEscapes ==
    UNION {{Item("cut", <<tag, 241 + WidthRank(w)>> \o Repeat(1, given), -1, <<>>) :
                tag \in LengthTags, given \in 0..(w - 1)} :
           w \in Widths}

\* the headers of a Binary or a String declaring the length n
DataHeads(n) ==
    {<<8, n>>, <<9, n>>, <<96 + n>>}
    \cup UNION {{<<tag, 241 + WidthRank(w)>> \o LEBytes(n, w) : tag \in {8, 9}} :
                w \in Widths}

\* a Binary or a String declaring 0..MaxPayload+1 bytes and holding 0..MaxPayload
Data ==
    UNION {{Item("data", head, n, Repeat(97, held)) : head \in DataHeads(n)} :
           n \in 0..(MaxPayload + 1), held \in 0..MaxPayload}

\* tag bytes 0x70..0x7F, alone and followed by as many bytes as their low five
\* bits count
WideTags == {112, 113, 127}
Wide ==
    {Item("wide", <<tag>>, tag % 32, Repeat(97, held)) :
        tag \in WideTags, held \in {0, 16, 17, 31}}

Items == References \cup CutEscapes \cup Data \cup Wide

InitPay ==
    /\ mode = "pay"
    /\ dict \in PayDictionaries
    /\ \E item \in Items :
          /\ doc = <<item>>
          /\ DecoderNew(Wire(item))
    /\ EncoderNew
    /\ alt = AltNew(<<>>)

PayRead ==
    /\ mode = "pay"
    /\ nreads < MaxPayReads
    /\ DoRead
    /\ UNCHANGED <<mode, dict, doc, encVars, alt>>

NextPay == PayRead

SpecPay == InitPay /\ [][NextPay]_vars

\* the first read of the buffer built from an item of the class has returned
FirstRead(class) == mode = "pay" /\ nreads = 1 /\ doc[1].class = class

Failed(code) == dres.kind = "err" /\ dres.code = code

\* C14: reading a dictionary reference to the index i, in the inline form and
\* in each of the four index escapes, fails with InvalidDictionaryIndex when
\* i >= the dictionary's length and returns String(dictionary[i]) otherwise.
C14_DictionaryBounds ==
    FirstRead("ref") =>
        IF doc[1].declared >= Len(dict)
        THEN Failed("InvalidDictionaryIndex")
        ELSE dres.kind = "event" /\ dres.ev = Str(dict[doc[1].declared + 1])

\* the 8-byte escape holding the index just past a dictionary of two entries
\* has been refused
C14_Witness ==
    /\ FirstRead("ref")
    /\ Len(doc[1].head) = 10
    /\ doc[1].head[2] = 248
    /\ doc[1].declared = 2
    /\ Len(dict) = 2
    /\ Failed("InvalidDictionaryIndex")

\* C16: reading a length escape 0xF1..0xF4 that is followed by fewer bytes than
\* its width fails with the stream error code UnexpectedEOF.
C16_CutEscapeIsUnexpectedEOF ==
    FirstRead("cut") => Failed("UnexpectedEOF")

\* C17: reading a Binary or a String, from 0x08, 0x09 or the compact tag, whose
\* declared length exceeds the number of bytes left fails with UnexpectedEOF and
\* leaves every payload byte in the buffer.
C17_ShortPayload ==
    (FirstRead("data") /\ doc[1].declared > Len(doc[1].payload))
        => Failed("UnexpectedEOF") /\ buf = doc[1].payload

\* a String declaring 4 bytes through the 2-byte length escape, and holding 3,
\* has been refused with the 3 bytes left in the buffer
C17_Witness ==
    /\ FirstRead("data")
    /\ doc[1].head = <<9, 242, 4, 0>>
    /\ Len(doc[1].payload) = 3
    /\ Failed("UnexpectedEOF")
    /\ buf = doc[1].payload

----------------------------------------------------------------------------
(* Claims about the sequence of results of Decoder::read, checked under SpecDec *)

ReadDone == nreads' = nreads + 1

\* the events returned so far, none of them after an error, are one complete
\* top-level value, and end-of-stream has not been returned yet
ValueRead ==
    /\ ~dfailed
    /\ dres.kind = "event"
    /\ Balanced(devents)

\* C15: once the top-level value has been read without error the next read
\* returns end-of-stream, and every read made after end-of-stream was returned
\* fails with EndOfStream: end-of-stream is returned once and no event after it.
C15_EndOfStreamProtocol ==
    [][ReadDone =>
          /\ (ValueRead => dres'.kind = "eos")
          /\ (ended => (dres'.kind = "err" /\ dres'.code = "EndOfStream"))]_vars

\* an array of one entry has been read to its End, end-of-stream has been
\* returned, and the two reads made after it have failed with EndOfStream
C15_Witness ==
    /\ mode = "dec"
    /\ devents = <<Some("StartArray", 1), Nil, End>>
    /\ ended
    /\ nreads = 6
    /\ Failed("EndOfStream")
    /\ dstack = <<>>

\* C19: a read that fails with an I/O error because the buffer runs out after
\* the item's first byte leaves the nesting stack as it was before the call.
C19_StackKeptOnReaderError ==
    [][(ReadDone /\ buf # <<>> /\ dres'.kind = "err" /\ dres'.code = "IoError")
          => dstack' = dstack]_vars

\* C20: every read returns: an event, end-of-stream or an error value; it never
\* aborts, whatever the bytes and the dictionary.
C20_ReadNeverAborts == dres.kind \in {"none", "event", "eos", "err"}

\* C20 for the tag bytes other than 0x18: a tag that no arm of the decoder
\* reads (here 0x00) is refused with InvalidType.
C20_UnassignedTagIsInvalidType ==
    [][(/\ ReadDone
        /\ dstack # <<>>
        /\ Last(dstack) > 0
        /\ buf # <<>>
        /\ Head(buf) = 0)
          => (dres'.kind = "err" /\ dres'.code = "InvalidType")]_vars

----------------------------------------------------------------------------
(* Termination of decoding, checked under SpecDec *)

\* every read made so far has returned an event
OnlyEvents == dres.kind \in {"none", "event"}

\* C21: on a buffer of len bytes the reads return events for at most 2*len + 1
\* calls, and what ends the events is end-of-stream or an error: one of the two
\* is reached after at most 2*len + 2 calls.
C21_DecodingTerminates ==
    mode = "dec" =>
        /\ (OnlyEvents => nreads <= 2 * Len(doc) + 1)
        /\ (~OnlyEvents => (ended \/ dfailed))

\* C21 without its last part: the number of calls that return events is bounded
\* by the length of the buffer (each consumes a byte or closes a structure that
\* a byte opened).
C21_EventsBoundedByLength ==
    mode = "dec" => Len(devents) <= 2 * Len(doc)

\* C21 on the runs in which no read has aborted: the same statement.
C21_HoldsWithoutAbort == dres.kind = "panic" \/ C21_DecodingTerminates

----------------------------------------------------------------------------
(* The tree encoder's length codec: src/src/lib.rs.  A u64 is the sequence of
   its 8 bytes, most significant first. *)

\* x < 256^w
Below(x, w) == \A i \in 1..(8 - w) : x[i] = 0

\* the w least significant bytes of x, least significant first
LowLE(x, w) == Reverse(SubSeq(x, 9 - w, 8))

\* Encoder::emit_length with the one-byte guard taken as `x < 0xEF`
emit_length_Below0xEF(x) ==
    IF Below(x, 1) /\ x[8] < LengthLimit THEN <<x[8]>>
    ELSE IF Below(x, 1) THEN <<240>> \o LowLE(x, 1)
    ELSE IF Below(x, 2) THEN <<241>> \o LowLE(x, 2)
    ELSE IF Below(x, 4) THEN <<242>> \o LowLE(x, 4)
    ELSE <<243>> \o LowLE(x, 8)

\* Encoder::emit_length (lib.rs): the bytes written
emit_length(x) ==
    IF Below(x, 1) /\ x[8] < WideLengthLimit THEN <<x[8]>>
    ELSE IF Below(x, 1) THEN <<240>> \o LowLE(x, 1)
    ELSE IF Below(x, 2) THEN <<241>> \o LowLE(x, 2)
    ELSE IF Below(x, 4) THEN <<242>> \o LowLE(x, 4)
    ELSE <<243>> \o LowLE(x, 8)

----------------------------------------------------------------------------
(* The length harness: a length is encoded by Encoder::emit_length (lib.rs) or
   by Encoder::write_length (encoder.rs) into an empty Vec<u8>, and the bytes
   are then read by Decoder::read_length *)

\* the u64 of a number below 2^31
U64Of(n) ==
    <<0, 0, 0, 0, n \div 16777216, (n \div 65536) % 256, (n \div 256) % 256,
      n % 256>>

\* a u64 below 2^31, and its number
Small(x) == Below(x, 4) /\ x[5] < 128
IntOf(x) == LEValue(Reverse(x))

Lengths ==
    {U64Of(n) : n \in 0..MaxShortLength}
    \cup {U64Of(n) : n \in {127, 128, 238, 239, 240, 241, 244, 255, 256, 257,
                           65535, 65536, 16777216, 2147483647}}
    \cup {<<0, 0, 0, 0, 128, 0, 0, 0>>, <<0, 0, 0, 0, 255, 255, 255, 255>>,
          <<0, 0, 0, 1, 0, 0, 0, 0>>, <<0, 0, 0, 1, 0, 0, 0, 5>>,
          <<128, 0, 0, 0, 0, 0, 0, 1>>}

InitLen ==
    /\ mode = "len"
    /\ dict = <<>>
    /\ doc \in {<<x>> : x \in Lengths}
    /\ EncoderNew
    /\ DecoderNew(<<>>)
    /\ alt = AltNew(<<>>)

\* lib.rs Encoder::emit_length(doc[1])
EmitLength ==
    /\ mode = "len"
    /\ mode' = "len_written"
    /\ sink' = emit_length(doc[1])
    /\ eres' = "Ok"
    /\ elast' = Ev("emit_length", doc[1])
    /\ UNCHANGED <<dict, doc, estack, eprev, nwrites, written, ehist, failed,
                   open, decVars, alt>>

Sent(w) ==
    /\ mode' = "len_written"
    /\ sink' = w.out
    /\ eres' = w.res
    /\ elast' = Ev("write_length", doc[1])

\* encoder.rs Encoder::write_length(Size::U64(doc[1]))
WriteLength ==
    /\ mode = "len"
    /\ Small(doc[1])
    /\ Sent(Emit(write_length(SizeU64(IntOf(doc[1]))), NoLimit))
    /\ UNCHANGED <<dict, doc, estack, eprev, nwrites, written, ehist, failed,
                   open, decVars, alt>>

LengthRead(r) ==
    /\ mode' = "len_read"
    /\ buf' = r.rest
    /\ dres' = [kind |-> IF r.code = "" THEN "event" ELSE "err",
                ev |-> IF r.code = "" THEN Ev("Length", r.val) ELSE NoEvent,
                code |-> r.code]

\* Decoder::read_length on the bytes written
ReadLength ==
    /\ mode = "len_written"
    /\ eres = "Ok"
    /\ LengthRead(read_length(sink))
    /\ UNCHANGED <<dict, doc, encVars, alt, dstack, devents, dprev, nreads,
                   dfailed, truncated, ended>>

NextLen == EmitLength \/ WriteLength \/ ReadLength

SpecLen == InitLen /\ [][NextLen]_vars

\* the smallest of the widths 1, 2, 4, 8 that holds x
MinWidth(x) ==
    CHOOSE w \in Widths : Below(x, w) /\ \A v \in Widths : Below(x, v) => w <= v

\* C22: emit_length writes the length n as the one byte n when n < 0xF0, and
\* otherwise as the marker 0xF0, 0xF1, 0xF2 or 0xF3 followed by n, little-endian,
\* in 1, 2, 4 or 8 bytes: the smallest of these widths that holds n.
C22_EmitLength ==
    (mode = "len_written" /\ elast.t = "emit_length") =>
        IF Below(doc[1], 1) /\ doc[1][8] < 240
        THEN sink = <<doc[1][8]>>
        ELSE sink = <<240 + WidthRank(MinWidth(doc[1]))>>
                    \o LowLE(doc[1], MinWidth(doc[1]))

\* the length 2^32 has been written as 0xF3 and its 8 bytes
C22_Witness ==
    /\ mode = "len_written"
    /\ elast = Ev("emit_length", <<0, 0, 0, 1, 0, 0, 0, 0>>)
    /\ sink = <<243, 0, 0, 0, 0, 1, 0, 0, 0>>

\* C23: the bytes that emit_length or write_length wrote for the length n are
\* read by read_length as n, and read to their end.
C23_LengthRoundTrip ==
    /\ (mode = "len_written" => eres = "Ok")
    /\ (mode = "len_read" =>
          /\ dres.kind = "event"
          /\ Small(doc[1])
          /\ dres.ev.v = <<IntOf(doc[1])>>
          /\ buf = <<>>)

\* C23 for the lengths below 0xEF
C23_HoldsBelow0xEF ==
    (Below(doc[1], 1) /\ doc[1][8] < 239) => C23_LengthRoundTrip

----------------------------------------------------------------------------
(* Claims about the nesting stacks *)

\* C24: a read that returns a Start event with count n replaces the frame r on
\* top of the stack by r - 1 and, above it, the structure's frame: n for an
\* array, 2n for a map, n + 1 for a struct, 2n + 1 for an open struct; a read
\* that returns a scalar replaces r by r - 1; no other frame changes.
C24_DecoderFrameAccounting ==
    [][(ReadDone /\ dres'.kind = "event" /\ dres'.ev # End) =>
          /\ dstack # <<>>
          /\ dstack' = Front(dstack) \o
                IF IsStart(dres'.ev)
                THEN <<Last(dstack) - 1, Children(dres'.ev)>>
                ELSE <<Last(dstack) - 1>>]_vars

\* the header of an open struct of one field has been read at top level: the
\* root frame is at 0 and the structure's frame is 3
C24_Witness ==
    /\ mode = "dec"
    /\ nreads = 1
    /\ dres.ev = Some("StartOpenStruct", 1)
    /\ dprev = <<1>>
    /\ dstack = <<0, 3>>

\* Encoder.stack after the first k accepted writes
StackAfter(k) == IF k = 0 THEN <<SizeU64(1)>> ELSE ehist[k]

\* the remaining counts of the known-length frames of an Encoder.stack
Counts(stack) == [i \in 1..Len(stack) |-> stack[i].n]

\* C25: for a well-formed sequence of known-length structures, the Decoder's
\* stack after it has returned k events from the bytes written holds, frame by
\* frame, the remaining counts the Encoder's stack held after it had accepted
\* its first k events.
C25_StacksMirror ==
    (mode = "rt_read" /\ OnlyEvents /\ Len(devents) <= Len(ehist)) =>
        dstack = Counts(StackAfter(Len(devents)))

\* C25 for the sequences that hold no map of 15 or more entries
C25_HoldsWithoutLargeMap ==
    (\E i \in 1..Len(doc) : doc[i].t = "StartMap" /\ doc[i].v[1] >= CompactLimit)
    \/ C25_StacksMirror

\* no call of the object has failed (or aborted), and the Decoder has not
\* returned end-of-stream
EncoderActive == ~failed /\ eres \in {"none", "Ok"}
DecoderActive == ~dfailed /\ ~ended /\ dres.kind \in {"none", "event"}

\* the number of structures opened and not closed by the events
Depth(events) == Count(events, StartKinds) - Count(events, {"End"})

\* C26: between calls, as long as no call has failed and the Decoder has not
\* returned end-of-stream, the nesting stack of the Encoder and of the Decoder
\* is not empty and holds one frame more than there are Start events not yet
\* matched by an End.
C26_StackDepth ==
    /\ (EncoderActive =>
          Len(estack) >= 1 /\ Len(estack) = 1 + Depth(written))
    /\ (DecoderActive =>
          Len(dstack) >= 1 /\ Len(dstack) = 1 + Depth(devents))

\* both objects have handled an array holding a struct: the Decoder, inside the
\* struct, holds three frames and the Encoder, done, holds the root frame
C26_Witness ==
    /\ mode = "rt_read"
    /\ DecoderActive
    /\ EncoderActive
    /\ devents = <<Some("StartArray", 2), Some("StartStruct", 1), Nil>>
    /\ Len(dstack) = 3
    /\ Len(estack) = 1
    /\ Len(ehist[3]) = 3

\* C27: an accepted write of End hands no byte to the writer, and a read that
\* returns End or end-of-stream takes no byte from the buffer.
C27_EndHasNoBytes ==
    [][/\ (Wrote /\ elast' = End /\ eres' = "Ok") => sink' = sink
       /\ (ReadDone /\ (dres'.kind = "eos" \/ dres'.ev = End)) => buf' = buf]_vars

\* the inner structure of an array has been closed by both: the write of its End
\* was accepted, and the read returned its End with the next entry's byte still
\* in the buffer
C27_Witness ==
    /\ mode = "rt_read"
    /\ doc = Nested("StartMap", 1, Nil)
    /\ Len(devents) = 5
    /\ dres.ev = End
    /\ buf = <<1>>
    /\ sink = <<34, 49, 1, 1, 1>>

----------------------------------------------------------------------------
(* Claims about the headers Encoder::write writes, checked under Spec and SpecRT *)

\* C28: a write of a Start event of unknown length (None), of any of the four
\* kinds, returns normally: unless it is rejected for the nesting it is
\* accepted, having handed a header to the writer and pushed a streaming frame;
\* it does not abort.
C28_StreamingStartReturns ==
    [][(/\ Wrote
        /\ IsStart(elast')
        /\ elast'.v = <<>>
        /\ eres' \notin StructuralErrors)
          => /\ eres' = "Ok"
             /\ Emitted # <<>>
             /\ Last(estack').k = "Streaming"]_vars

\* the length the header just written carries: the low four bits of a compact
\* tag, the byte after a general tag
HeaderCount == IF Len(Emitted) = 1 THEN Emitted[1] % 16 ELSE Emitted[2]

\* C29: an accepted Start event of known length n writes the count n in its
\* header, in the compact form and in the general form, and pushes the frame
\* n, n + 1, 2n or 2n + 1.
C29_HeaderCarriesCount ==
    [][(Wrote /\ IsKnown(elast') /\ eres' = "Ok") =>
          /\ HeaderCount = elast'.v[1]
          /\ Last(estack') = SizeU64(Children(elast'))]_vars

\* C29 for every header but the general form of a map
C29_HoldsButForLargeMap ==
    [][(/\ Wrote
        /\ IsKnown(elast')
        /\ eres' = "Ok"
        /\ ~(elast'.t = "StartMap" /\ elast'.v[1] >= CompactLimit)) =>
          /\ HeaderCount = elast'.v[1]
          /\ Last(estack') = SizeU64(Children(elast'))]_vars

----------------------------------------------------------------------------
(* The compact string tag, checked under SpecPay *)

\* C30: a tag byte 0x70..0x7F is not read as a compact inline string (only tags
\* whose high four bits are 0110 are, with the length in the low four bits): it
\* is refused as a tag without meaning, whatever follows it.
C30_CompactStringTagRange ==
    FirstRead("wide") => Failed("InvalidType")

----------------------------------------------------------------------------
(* The single top-level value, checked under SpecDec *)

\* C31: once one complete top-level value has been read the next read returns
\* end-of-stream, also when bytes are left in the buffer; that read and every
\* read after it leave the buffer as it is and return no event; and the only
\* event ever read at top level is the first one returned.
C31_OneTopLevelValue ==
    [][ReadDone =>
          /\ (ValueRead => (dres'.kind = "eos" /\ buf' = buf))
          /\ (ended => (buf' = buf /\ dres'.kind # "event"))
          /\ ((dres'.kind = "event" /\ Len(dstack) = 1) => devents = <<>>)]_vars

\* on the buffer [0x01, 0x01, 0x01] Nil and then end-of-stream have been
\* returned, a further read has been made, and two bytes are still unread
C31_Witness ==
    /\ mode = "dec"
    /\ doc = <<1, 1, 1>>
    /\ devents = <<Nil>>
    /\ ended
    /\ nreads = 3
    /\ buf = <<1, 1>>

----------------------------------------------------------------------------
(* Rejected writes, checked under Spec *)

\* C32: a write rejected with MissingEnd, InvalidEnd or EndOfStream hands no
\* byte to the writer: the sink holds after the call what it held before.
C32_RejectedWriteWritesNothing ==
    [][(Wrote /\ eres' \in StructuralErrors) => sink' = sink]_vars

\* inside an array of one entry that is full, a further Nil has been rejected
\* with MissingEnd and the sink holds the header and the entry only
C32_Witness ==
    /\ mode = "enc"
    /\ written = <<Some("StartArray", 1), Nil>>
    /\ elast = Nil
    /\ eres = "MissingEnd"
    /\ nwrites = 3
    /\ sink = <<33, 1>>

====
